---- MODULE Spec2Model ----
(***************************************************************************)
(* GenAILiveClient: the connection state machine, the outbound gateway,    *)
(* the inbound message dispatcher and the event/log bus, together with     *)
(* the Session Transport that drives the four callbacks.                   *)
(*                                                                         *)
(* The transport follows the life cycle of a socket: per open it invokes   *)
(* onopen at most once, resolves the open only after onopen, delivers      *)
(* messages while a connection is open, and invokes onclose last.          *)
(*                                                                         *)
(* Every action is one handler run to completion (JavaScript is single     *)
(* threaded); connect() is split at its only await.  `op` describes the    *)
(* handler that ran last and `out` is the ordered list of everything it    *)
(* emitted: events, log entries and calls made on the transport.           *)
(***************************************************************************)
EXTENDS Integers, Sequences, FiniteSets, TLC

\* ------------------------------------------------------------------ bounds
MaxAttempts == 2      \* transport opens started by connect()
MaxParts    == 2      \* parts of one modelTurn
MaxChunks   == 3      \* chunks of one sendRealtimeInput call
MaxTokens   == 2      \* tokens a close reason is built from
MaxTurnParts == 4     \* parts of a modelTurn handed to the demultiplexer alone

VARIABLES
  status,      \* _status: "disconnected" | "connecting" | "connected"
  session,     \* this.session: NoSession or the handle (= attempt number)
  nAttempts,   \* transport opens started so far
  promise,     \* per attempt: the promise returned by live.connect
  sock,        \* per attempt: the transport's connection
  closeReq,    \* per attempt: close() was called on its handle
  opens,       \* per attempt: `open` events emitted for it
  inbox,       \* the messages the transport may deliver
  op,          \* the handler that ran last
  out          \* what that handler emitted, in order

vars == <<status, session, nAttempts, promise, sock, closeReq, opens, inbox, op, out>>

NoSession == 0
Attempts  == 1..MaxAttempts

\* ------------------------------------------------------------ small helpers
RECURSIVE SeqsUpTo(_, _)
SeqsUpTo(S, n) ==
  IF n = 0 THEN {<<>>}
  ELSE LET shorter == SeqsUpTo(S, n - 1)
       IN  shorter \cup {Append(s, x) : s \in {t \in shorter : Len(t) = n - 1}, x \in S}

RECURSIVE Flatten(_)
Flatten(ss) == IF ss = <<>> THEN <<>> ELSE Head(ss) \o Flatten(Tail(ss))

\* String.prototype.startsWith / includes / indexOf on sequences
StartsWith(s, p) == Len(s) >= Len(p) /\ SubSeq(s, 1, Len(p)) = p
OccursAt(s, p, i) == i + Len(p) - 1 <= Len(s) /\ SubSeq(s, i, i + Len(p) - 1) = p
Includes(s, p) == \E i \in 1..(Len(s) + 1) : OccursAt(s, p, i)
\* 0-based index of the first occurrence, -1 when there is none
IndexOf(s, p) ==
  IF Includes(s, p)
  THEN (CHOOSE i \in 1..(Len(s) + 1) :
          OccursAt(s, p, i) /\ \A j \in 1..(i - 1) : ~OccursAt(s, p, j)) - 1
  ELSE -1

\* ------------------------------------------------------------- the bus
Ev(t, p)      == [k |-> "event", t |-> t, h |-> 0, p |-> p]
Tx(call, h, p) == [k |-> "tx", t |-> call, h |-> h, p |-> p]
log(type, message) == [k |-> "log", t |-> type, h |-> 0, p |-> message]

Kinds(o)   == [i \in DOMAIN o |-> <<o[i].k, o[i].t>>]
Count(o, k, t) == Cardinality({i \in DOMAIN o : o[i].k = k /\ o[i].t = t})
CountKind(o, k) == Cardinality({i \in DOMAIN o : o[i].k = k})

\* new ErrorEvent(type, {message})
ErrorEvent(type, message) == [type |-> type, message |-> message]
NotConnected == ErrorEvent("Client is not connected", "")

\* ------------------------------------------------------------- inputs
\* mime types and base64 payloads are sequences of tokens
AudioPcm     == <<"audio", "/pcm">>
AudioPcmRate == <<"audio", "/pcm", ";rate=24000">>
AudioMp3     == <<"audio", "/mp3">>
ImageJpeg    == <<"image", "/jpeg">>
TextPlain    == <<"text", "/plain">>

\* Part objects a modelTurn may list.  `id` is the object's identity: two
\* list entries with the same id are one object, parts 3 and 4 are two
\* objects of equal value.  data is the base64 payload in 4-character groups;
\* part 2 is an audio part without payload, part 5 inline data that is not PCM.
PartPool ==
  { [id |-> 1, inline |-> TRUE,  mime |-> AudioPcmRate, data |-> <<"QUJD">>, text |-> ""],
    [id |-> 2, inline |-> TRUE,  mime |-> AudioPcm,     data |-> <<>>,       text |-> ""],
    [id |-> 3, inline |-> FALSE, mime |-> <<>>,         data |-> <<>>,       text |-> "hello"],
    [id |-> 4, inline |-> FALSE, mime |-> <<>>,         data |-> <<>>,       text |-> "hello"],
    [id |-> 5, inline |-> TRUE,  mime |-> AudioMp3,     data |-> <<"QUJD">>, text |-> ""],
    [id |-> 6, inline |-> TRUE,  mime |-> AudioPcm,     data |-> <<"QUJD", "RUZH">>, text |-> ""] }

NoTranscription == [present |-> FALSE, text |-> "", isFinal |-> "unset"]
Transcriptions ==
  { NoTranscription,
    [present |-> TRUE, text |-> "hi", isFinal |-> "unset"],
    [present |-> TRUE, text |-> "hi", isFinal |-> "true"] }

NoModelTurn == [present |-> FALSE, hasParts |-> FALSE, parts |-> <<>>]
ModelTurns ==
  { NoModelTurn, [present |-> TRUE, hasParts |-> FALSE, parts |-> <<>>] }
  \cup { [present |-> TRUE, hasParts |-> TRUE, parts |-> ps] :
           ps \in SeqsUpTo(PartPool, MaxParts) }

NoServerContent ==
  [present |-> FALSE, interrupted |-> FALSE,
   inputTranscription |-> NoTranscription, outputTranscription |-> NoTranscription,
   modelTurn |-> NoModelTurn, turnComplete |-> FALSE]
ServerContents ==
  { NoServerContent }
  \cup [present : {TRUE}, interrupted : BOOLEAN,
        inputTranscription : Transcriptions, outputTranscription : Transcriptions,
        modelTurn : ModelTurns, turnComplete : BOOLEAN]

\* LiveServerMessage: every field optional
Messages ==
  [setupComplete : BOOLEAN, toolCall : BOOLEAN, toolCallCancellation : BOOLEAN,
   serverContent : ServerContents]

NoMessage ==
  [setupComplete |-> FALSE, toolCall |-> FALSE, toolCallCancellation |-> FALSE,
   serverContent |-> NoServerContent]

\* realtime chunks {mimeType, data}
ChunkPool ==
  { [mimeType |-> AudioPcm,  data |-> <<"QUJD">>],
    [mimeType |-> ImageJpeg, data |-> <<"QUJD">>],
    [mimeType |-> TextPlain, data |-> <<"QUJD">>] }
ChunkLists == SeqsUpTo(ChunkPool, MaxChunks)

\* LiveClientToolResponse.functionResponses: missing, empty or one response
ToolResponses ==
  { [present |-> FALSE, functionResponses |-> <<>>],
    [present |-> TRUE,  functionResponses |-> <<>>],
    [present |-> TRUE,  functionResponses |-> <<"response">>] }

\* close reasons, as character sequences built from a few tokens
Marker == <<"E", "R", "R", "O", "R", "]">>
ReasonTokens == { Marker, <<"e", "r", "r", "o", "r">>, <<"x">>, <<":">> }
Reasons == { Flatten(ts) : ts \in SeqsUpTo(ReasonTokens, MaxTokens) }

\* failure reasons of a rejected open: e.message, possibly empty
RejectMessages == { "", "boom" }

\* ------------------------------------------------- pure parts of handlers
\* base64ToArrayBuffer(b64).byteLength: three bytes per 4-character group
base64ToArrayBuffer(b64) == [byteLength |-> 3 * Len(b64)]

\* p.inlineData?.mimeType?.startsWith('audio/pcm')
IsAudioPart(p) == p.inline /\ StartsWith(p.mime, AudioPcm)

RECURSIVE differenceUniqFrom(_, _, _)
differenceUniqFrom(array, values, seen) ==
  IF array = <<>> THEN <<>>
  ELSE LET p == Head(array)
       IN  (IF p.id \in seen \/ \E i \in DOMAIN values : values[i].id = p.id
            THEN <<>> ELSE << p >>)
           \o differenceUniqFrom(Tail(array), values, seen \cup {p.id})

difference_uniq(array, values) == differenceUniqFrom(array, values, {})

\* lodash difference(array, values): the elements of array that are not
\* (SameValueZero, i.e. by object identity) among values, in array order
difference(array, values) ==
  LET kept(p) == \A i \in DOMAIN values : values[i].id # p.id
  IN  SelectSeq(array, kept)

RECURSIVE audioEffects_noGuard(_)
audioEffects_noGuard(audioParts) ==
  IF audioParts = <<>> THEN <<>>
  ELSE LET data == base64ToArrayBuffer(Head(audioParts).data)
       IN  << Ev("audio", data), log("server.audio", <<"buffer", data.byteLength>>) >>
           \o audioEffects_noGuard(Tail(audioParts))

\* the forEach over base64s: empty payloads are skipped
RECURSIVE audioEffects(_)
audioEffects(audioParts) ==
  IF audioParts = <<>> THEN <<>>
  ELSE LET b64  == Head(audioParts).data
           data == base64ToArrayBuffer(b64)
       IN  (IF b64 # <<>>
            THEN << Ev("audio", data), log("server.audio", <<"buffer", data.byteLength>>) >>
            ELSE <<>>)
           \o audioEffects(Tail(audioParts))

modelTurnEffects_alwaysContent(message) ==
  LET parts      == message.serverContent.modelTurn.parts
      audioParts == SelectSeq(parts, IsAudioPart)
      otherParts == difference(parts, audioParts)
  IN  audioEffects(audioParts)
      \o << Ev("content", [modelTurn |-> [parts |-> otherParts]]),
            log("server.content", message) >>

\* the modelTurn block of onMessage
modelTurnEffects(message) ==
  LET parts      == message.serverContent.modelTurn.parts
      audioParts == SelectSeq(parts, IsAudioPart)
      otherParts == difference(parts, audioParts)
  IN  audioEffects(audioParts)
      \o (IF Len(otherParts) > 0
          THEN << Ev("content", [modelTurn |-> [parts |-> otherParts]]),
                  log("server.content", message) >>
          ELSE <<>>)

\* (x as any).isFinal ?? false
IsFinal(tr) == tr.isFinal = "true"

transcriptionEffects(name, tr) ==
  IF tr.present
  THEN << Ev(name, [text |-> tr.text, isFinal |-> IsFinal(tr)]),
          log(IF name = "inputTranscription" THEN "server.inputTranscription"
                                             ELSE "server.outputTranscription", tr.text) >>
  ELSE <<>>

signalsOut_modelTurnFirst(message) ==
  LET sc == message.serverContent
  IN  (IF sc.modelTurn.present THEN modelTurnEffects(message) ELSE <<>>)
      \o transcriptionEffects("inputTranscription", sc.inputTranscription)
      \o transcriptionEffects("outputTranscription", sc.outputTranscription)
      \o (IF sc.turnComplete
          THEN << log("server.send", "turnComplete"), Ev("turncomplete", <<>>) >>
          ELSE <<>>)

\* the signals of a serverContent that is not interrupted, in code order
signalsOut(message) ==
  LET sc == message.serverContent
  IN  transcriptionEffects("inputTranscription", sc.inputTranscription)
      \o transcriptionEffects("outputTranscription", sc.outputTranscription)
      \o (IF sc.modelTurn.present THEN modelTurnEffects(message) ELSE <<>>)
      \o (IF sc.turnComplete
          THEN << log("server.send", "turnComplete"), Ev("turncomplete", <<>>) >>
          ELSE <<>>)

interruptedOut_noLog == << Ev("interrupted", <<>>) >>

interruptedOut == << log("receive.serverContent", "interrupted"), Ev("interrupted", <<>>) >>

serverContentOut_noStop(message) ==
  IF message.serverContent.interrupted
  THEN interruptedOut \o signalsOut(message)
  ELSE signalsOut(message)

\* the serverContent branch of onMessage
serverContentOut(message) ==
  IF message.serverContent.interrupted
  THEN interruptedOut
  ELSE signalsOut(message)

\* onMessage below the setupComplete test
afterSetupComplete(message) ==
  IF message.toolCall
    THEN [branch |-> "toolCall",
          out |-> << log("server.toolCall", message), Ev("toolcall", "toolCall") >>]
  ELSE IF message.toolCallCancellation
    THEN [branch |-> "toolCallCancellation",
          out |-> << log("receive.toolCallCancellation", message),
                     Ev("toolcallcancellation", "toolCallCancellation") >>]
  ELSE IF message.serverContent.present
    THEN [branch |-> "serverContent", out |-> serverContentOut(message)]
  ELSE [branch |-> "none", out |-> <<>>]

onMessageRun_noReturn(message) ==
  IF message.setupComplete
  THEN [branch |-> "setupComplete",
        out |-> << Ev("setupcomplete", <<>>) >> \o afterSetupComplete(message).out]
  ELSE afterSetupComplete(message)

\* onMessage: the branch taken and what it emits
onMessageRun(message) ==
  IF message.setupComplete
  THEN [branch |-> "setupComplete", out |-> << Ev("setupcomplete", <<>>) >>]
  ELSE afterSetupComplete(message)

onErrorOut_noLog(e) == << Ev("error", e) >>

\* onError: log, then the error event (status is set by the caller below)
onErrorOut(e) ==
  << log("server.error", <<"Could not connect to GenAI Live: ", e.message>>),
     Ev("error", e) >>

onOpenOut_none == <<>>

\* onOpen emits `open`
onOpenOut == << Ev("open", <<>>) >>

\* reason.toLowerCase()
LowerChar(c) ==
  IF c = "E" THEN "e" ELSE IF c = "R" THEN "r" ELSE IF c = "O" THEN "o" ELSE c
toLowerCase(s) == [i \in DOMAIN s |-> LowerChar(s[i])]

\* s.slice(from, Infinity), from 0-based
SliceFrom(s, from) == IF from >= Len(s) THEN <<>> ELSE SubSeq(s, from + 1, Len(s))

\* the reason onClose logs
closeReason(raw) ==
  IF Includes(toLowerCase(raw), <<"e", "r", "r", "o", "r">>)
  THEN LET preludeIndex == IndexOf(raw, Marker)
       IN  IF preludeIndex > 0
           THEN SliceFrom(raw, preludeIndex + Len(Marker) + 1)
           ELSE raw
  ELSE raw

onCloseOut_eventFirst(raw) ==
  LET reason == closeReason(raw)
  IN  << Ev("close", [type |-> "close", reason |-> raw]),
         log("server.close",
             IF reason # <<>> THEN <<"disconnected ", "with reason: ", reason>>
                              ELSE <<"disconnected ">>) >>

onCloseOut(raw) ==
  LET reason == closeReason(raw)
  IN  << log("server.close",
             IF reason # <<>> THEN <<"disconnected ", "with reason: ", reason>>
                              ELSE <<"disconnected ">>),
         Ev("close", [type |-> "close", reason |-> raw]) >>

RECURSIVE scanChunks_stopsAtFirst(_, _, _, _)
scanChunks_stopsAtFirst(chunks, i, hasAudio, hasVideo) ==
  IF i > Len(chunks) THEN [hasAudio |-> hasAudio, hasVideo |-> hasVideo]
  ELSE LET a == hasAudio \/ Includes(chunks[i].mimeType, <<"audio">>)
           v == hasVideo \/ Includes(chunks[i].mimeType, <<"image">>)
       IN  IF a \/ v THEN [hasAudio |-> a, hasVideo |-> v]
           ELSE scanChunks_stopsAtFirst(chunks, i + 1, a, v)

\* the label sendRealtimeInput logs: the scan stops once both flags are set
RECURSIVE scanChunks(_, _, _, _)
scanChunks(chunks, i, hasAudio, hasVideo) ==
  IF i > Len(chunks) THEN [hasAudio |-> hasAudio, hasVideo |-> hasVideo]
  ELSE LET a == hasAudio \/ Includes(chunks[i].mimeType, <<"audio">>)
           v == hasVideo \/ Includes(chunks[i].mimeType, <<"image">>)
       IN  IF a /\ v THEN [hasAudio |-> a, hasVideo |-> v]
           ELSE scanChunks(chunks, i + 1, a, v)

realtimeLabel(chunks) ==
  LET f == scanChunks(chunks, 1, FALSE, FALSE)
  IN  IF f.hasAudio /\ f.hasVideo THEN "audio + video"
      ELSE IF f.hasAudio THEN "audio"
      ELSE IF f.hasVideo THEN "video"
      ELSE "unknown"

\* ------------------------------------------------------------- state
Ran(name, ret, att, branch, arg) ==
  [name |-> name, preStatus |-> status, preSession |-> session,
   ret |-> ret, att |-> att, branch |-> branch, arg |-> arg]

\* a few messages with more than one field, for the connection machine
SomeMessages ==
  { NoMessage,
    [NoMessage EXCEPT !.setupComplete = TRUE,
                      !.serverContent = [NoServerContent EXCEPT !.present = TRUE,
                                                                !.turnComplete = TRUE]],
    [NoMessage EXCEPT !.toolCall = TRUE, !.toolCallCancellation = TRUE],
    [NoMessage EXCEPT !.serverContent =
        [NoServerContent EXCEPT !.present = TRUE, !.interrupted = TRUE,
                                !.turnComplete = TRUE]],
    [NoMessage EXCEPT !.serverContent =
        [NoServerContent EXCEPT !.present = TRUE, !.turnComplete = TRUE]],
    [NoMessage EXCEPT !.serverContent =
        [NoServerContent EXCEPT
           !.present = TRUE,
           !.inputTranscription = [present |-> TRUE, text |-> "hi", isFinal |-> "unset"],
           !.modelTurn = [present |-> TRUE, hasParts |-> TRUE,
                          parts |-> << CHOOSE q \in PartPool : q.id = 1,
                                          CHOOSE q \in PartPool : q.id = 3 >>],
           !.turnComplete = TRUE]] }

InitClient ==
  /\ status = "disconnected"
  /\ session = NoSession
  /\ nAttempts = 0
  /\ promise = [a \in Attempts |-> "none"]
  /\ sock = [a \in Attempts |-> "none"]
  /\ closeReq = [a \in Attempts |-> FALSE]
  /\ opens = [a \in Attempts |-> 0]
  /\ op = [name |-> "new", preStatus |-> "disconnected", preSession |-> NoSession,
           ret |-> "void", att |-> 0, branch |-> "-", arg |-> <<>>]
  /\ out = <<>>

Init == InitClient /\ inbox = SomeMessages

\* ------------------------------------------------------------- connect
connectBlocked_connectedOnly == status = "connected"

\* the guard of connect()
connectBlocked == status = "connected" \/ status = "connecting"

\* connect(): up to the await
connect ==
  IF connectBlocked
  THEN /\ op' = Ran("connect", "false", 0, "-", <<>>)
       /\ out' = <<>>
       /\ UNCHANGED <<status, session, nAttempts, promise, sock, closeReq, opens, inbox>>
  ELSE /\ nAttempts < MaxAttempts
       /\ LET a == nAttempts + 1
          IN  /\ status' = "connecting"
              /\ nAttempts' = a
              /\ promise' = [promise EXCEPT ![a] = "pending"]
              /\ sock' = [sock EXCEPT ![a] = "opening"]
              /\ op' = Ran("connect", "pending", a, "-", <<>>)
              /\ out' = << Tx("connect", a, <<>>) >>
       /\ UNCHANGED <<session, closeReq, opens, inbox>>

\* connect(): the await resolved with the session of attempt a
connectResolved(a) ==
  /\ promise[a] = "pending"
  /\ sock[a] = "open"
  /\ promise' = [promise EXCEPT ![a] = "resolved"]
  /\ session' = a
  /\ status' = "connected"
  /\ op' = Ran("connectResolved", "true", a, "-", <<>>)
  /\ out' = <<>>
  /\ UNCHANGED <<nAttempts, sock, closeReq, opens, inbox>>

\* connect(): the await rejected, the catch block
connectRejected(a, message) ==
  /\ promise[a] = "pending"
  /\ promise' = [promise EXCEPT ![a] = "rejected"]
  /\ sock' = [sock EXCEPT ![a] = IF @ = "opening" THEN "closed" ELSE @]
  /\ status' = "disconnected"
  /\ session' = NoSession
  /\ op' = Ran("connectRejected", "false", a, "-", message)
  /\ out' = onErrorOut(ErrorEvent("error",
                         IF message # "" THEN message ELSE "Failed to connect."))
  /\ UNCHANGED <<nAttempts, closeReq, opens, inbox>>

closeCalls_always == << Tx("close", session, <<>>) >>

\* this.session?.close()
closeCalls == IF session # NoSession THEN << Tx("close", session, <<>>) >> ELSE <<>>

disconnect ==
  /\ closeReq' = IF session # NoSession THEN [closeReq EXCEPT ![session] = TRUE]
                                        ELSE closeReq
  /\ session' = NoSession
  /\ status' = "disconnected"
  /\ op' = Ran("disconnect", "true", 0, "-", <<>>)
  /\ out' = closeCalls \o << log("client.close", "Disconnected") >>
  /\ UNCHANGED <<nAttempts, promise, sock, opens, inbox>>

\* ------------------------------------------------------------- outbound
Connected_sessionOnly == session # NoSession

\* the guard of the three outbound operations, negated
Connected == status = "connected" /\ session # NoSession

Refused_logged(name, arg) ==
  /\ op' = Ran(name, "void", 0, "-", arg)
  /\ out' = << Ev("error", NotConnected), log("client.error", "not connected") >>

\* a rejected outbound call: one error event, nothing else
Refused(name, arg) ==
  /\ op' = Ran(name, "void", 0, "-", arg)
  /\ out' = << Ev("error", NotConnected) >>

\* send(parts, turnComplete = true); fails: the transport call throws
send(parts, turnComplete, fails) ==
  /\ IF ~Connected
     THEN Refused("send", <<parts, turnComplete>>)
     ELSE LET call == Tx("sendClientContent", session,
                         [turns |-> parts,
                          turnComplete |-> IF turnComplete = "unset" THEN "true"
                                                                     ELSE turnComplete])
          IN  IF fails
              THEN /\ op' = Ran("send", "throw", 0, "-", <<parts, turnComplete>>)
                   /\ out' = << call >>
              ELSE /\ op' = Ran("send", "void", 0, "-", <<parts, turnComplete>>)
                   /\ out' = << call, log("client.send", parts) >>
  /\ UNCHANGED <<status, session, nAttempts, promise, sock, closeReq, opens, inbox>>

\* sendRealtimeInput(chunks); failAt = i > 0: the i-th transport send throws
sendRealtimeInput(chunks, failAt) ==
  /\ IF ~Connected
     THEN Refused("sendRealtimeInput", chunks)
     ELSE LET calls(n) == [i \in 1..n |-> Tx("sendRealtimeInput", session,
                                             [media |-> chunks[i]])]
          IN  IF failAt > 0
              THEN /\ op' = Ran("sendRealtimeInput", "throw", 0, "-", chunks)
                   /\ out' = calls(failAt)
              ELSE /\ op' = Ran("sendRealtimeInput", "void", 0, "-", chunks)
                   /\ out' = calls(Len(chunks))
                             \o << log("client.realtimeInput", realtimeLabel(chunks)) >>
  /\ UNCHANGED <<status, session, nAttempts, promise, sock, closeReq, opens, inbox>>

\* sendToolResponse(toolResponse); fails: the transport call throws
sendToolResponse(toolResponse, fails) ==
  /\ IF ~Connected
     THEN Refused("sendToolResponse", toolResponse)
     ELSE LET forwarded == toolResponse.present /\ Len(toolResponse.functionResponses) > 0
              call == Tx("sendToolResponse", session,
                         [functionResponses |-> toolResponse.functionResponses])
          IN  IF forwarded /\ fails
              THEN /\ op' = Ran("sendToolResponse", "throw", 0, "-", toolResponse)
                   /\ out' = << call >>
              ELSE /\ op' = Ran("sendToolResponse", "void", 0, "-", toolResponse)
                   /\ out' = (IF forwarded THEN << call >> ELSE <<>>)
                             \o << log("client.toolResponse", [toolResponse |-> toolResponse]) >>
  /\ UNCHANGED <<status, session, nAttempts, promise, sock, closeReq, opens, inbox>>

\* ------------------------------------------------- transport callbacks
\* the connection of attempt a opened
onOpen(a) ==
  /\ sock[a] = "opening"
  /\ sock' = [sock EXCEPT ![a] = "open"]
  /\ status' = "connected"
  /\ op' = Ran("onOpen", "void", a, "-", <<>>)
  /\ out' = onOpenOut
  /\ opens' = [opens EXCEPT ![a] = @ + Count(onOpenOut, "event", "open")]
  /\ UNCHANGED <<session, nAttempts, promise, closeReq, inbox>>

onMessage_clearsHandle(message) ==
  /\ \E a \in Attempts : sock[a] = "open"
  /\ LET run == onMessageRun(message)
     IN  /\ op' = Ran("onMessage", "void", 0, run.branch, message)
         /\ out' = run.out
  /\ session' = NoSession
  /\ UNCHANGED <<status, nAttempts, promise, sock, closeReq, opens, inbox>>

onMessage_onlyWhenConnected(message) ==
  /\ \E a \in Attempts : sock[a] = "open"
  /\ LET run == onMessageRun(message)
     IN  /\ op' = Ran("onMessage", "void", 0, run.branch, message)
         /\ out' = IF status = "connected" THEN run.out ELSE <<>>
  /\ UNCHANGED <<status, session, nAttempts, promise, sock, closeReq, opens, inbox>>

\* a message arrived on an open connection
onMessage(message) ==
  /\ \E a \in Attempts : sock[a] = "open"
  /\ LET run == onMessageRun(message)
     IN  /\ op' = Ran("onMessage", "void", 0, run.branch, message)
         /\ out' = run.out
  /\ UNCHANGED <<status, session, nAttempts, promise, sock, closeReq, opens, inbox>>

\* the connection of attempt a reported an error
onError(a) ==
  /\ sock[a] \in {"opening", "open"}
  /\ sock' = [sock EXCEPT ![a] = "failed"]
  /\ status' = "disconnected"
  /\ op' = Ran("onError", "void", a, "-", ErrorEvent("error", "socket error"))
  /\ out' = onErrorOut(ErrorEvent("error", "socket error"))
  /\ UNCHANGED <<session, nAttempts, promise, closeReq, opens, inbox>>

\* the connection of attempt a closed, with the transport's reason
onClose(a, reason) ==
  /\ sock[a] \in {"opening", "open", "failed"}
  /\ sock' = [sock EXCEPT ![a] = "closed"]
  /\ status' = "disconnected"
  /\ op' = Ran("onClose", "void", a, "-", reason)
  /\ out' = onCloseOut(reason)
  /\ UNCHANGED <<session, nAttempts, promise, closeReq, opens, inbox>>

\* ------------------------------------------------------------- specification
\* the inputs the connection machine is exercised with
TurnCompleteArgs == {"unset", "true", "false"}
SomeChunkLists ==
  { <<>>,
    << [mimeType |-> AudioPcm, data |-> <<"QUJD">>],
       [mimeType |-> ImageJpeg, data |-> <<"QUJD">>] >> }
SomeReasons == { <<>>, <<"x">>, <<"x">> \o Marker \o <<":", "x">> }

Next ==
  \/ connect
  \/ \E a \in Attempts : connectResolved(a)
  \/ \E a \in Attempts, m \in RejectMessages : connectRejected(a, m)
  \/ disconnect
  \/ \E tc \in TurnCompleteArgs, f \in BOOLEAN : send(<<"part">>, tc, f)
  \/ \E cs \in SomeChunkLists : \E f \in 0..Len(cs) : sendRealtimeInput(cs, f)
  \/ \E tr \in ToolResponses, f \in BOOLEAN : sendToolResponse(tr, f)
  \/ \E a \in Attempts : onOpen(a)
  \/ \E m \in inbox : onMessage(m)
  \/ \E a \in Attempts : onError(a)
  \/ \E a \in Attempts, r \in SomeReasons : onClose(a, r)

Spec == Init /\ [][Next]_vars

\* The dispatcher on every message shape: one message per behaviour,
\* delivered on a connection that connect() opened.
InitDispatch == InitClient /\ inbox \in { {m} : m \in Messages }

NextDispatch ==
  \/ connect
  \/ \E a \in Attempts : onOpen(a)
  \/ \E m \in inbox : onMessage(m)

SpecDispatch == InitDispatch /\ [][NextDispatch]_vars

\* The outbound gateway on every chunk list, on a connection that connect()
\* opened.
NextOutbound ==
  \/ connect
  \/ \E a \in Attempts : onOpen(a)
  \/ \E a \in Attempts : connectResolved(a)
  \/ \E tc \in TurnCompleteArgs, f \in BOOLEAN : send(<<"part">>, tc, f)
  \/ \E cs \in ChunkLists : \E f \in 0..Len(cs) : sendRealtimeInput(cs, f)
  \/ \E tr \in ToolResponses, f \in BOOLEAN : sendToolResponse(tr, f)

SpecOutbound == Init /\ [][NextOutbound]_vars

\* The demultiplexer on longer turns: one message that carries only a
\* modelTurn (with or without turnComplete) per behaviour.
TurnMessages ==
  { [NoMessage EXCEPT !.serverContent =
       [NoServerContent EXCEPT !.present = TRUE, !.modelTurn = mt, !.turnComplete = tc]] :
      mt \in { [present |-> TRUE, hasParts |-> FALSE, parts |-> <<>>] }
              \cup { [present |-> TRUE, hasParts |-> TRUE, parts |-> ps] :
                       ps \in SeqsUpTo(PartPool, MaxTurnParts) },
      tc \in BOOLEAN }

InitDemux == InitClient /\ inbox \in { {m} : m \in TurnMessages }

SpecDemux == InitDemux /\ [][NextDispatch]_vars

\* The close callback on every close reason, on connections that connect()
\* opened.
NextClose ==
  \/ connect
  \/ \E a \in Attempts : onOpen(a)
  \/ \E a \in Attempts : connectResolved(a)
  \/ \E a \in Attempts, r \in Reasons : onClose(a, r)

SpecClose == Init /\ [][NextClose]_vars

\* ------------------------------------------------------------- properties
OutboundNames == {"send", "sendRealtimeInput", "sendToolResponse"}
Pending == {a \in Attempts : promise[a] = "pending"}

\* C1: a call to send, sendRealtimeInput or sendToolResponse makes a call on
\* the transport only if status was connected at the moment of the call.
C1_OutboundOnlyWhenConnected ==
  (op.name \in OutboundNames /\ CountKind(out, "tx") > 0) => op.preStatus = "connected"

\* an outbound call was forwarded to the transport
C1_Witness ==
  /\ op.name \in OutboundNames
  /\ CountKind(out, "tx") > 0
  /\ op.preStatus = "connected"

\* C2: connect() while status is connecting or connected returns false, opens
\* nothing on the transport, emits nothing, and leaves status and handle alone.
C2_ConnectWhileBusyIsNoOp ==
  (op.name = "connect" /\ op.preStatus \in {"connecting", "connected"}) =>
     /\ op.ret = "false"
     /\ Len(out) = 0
     /\ status = op.preStatus
     /\ session = op.preSession

\* connect() was called while an open was still awaited
C2_Witness ==
  /\ op.name = "connect"
  /\ op.preStatus = "connecting"
  /\ op.ret = "false"
  /\ Pending # {}

\* C3: when connect() returns true, status is connected and exactly one
\* `open` event has been emitted for that connection attempt.
C3_SuccessfulConnectOpensOnce ==
  op.name = "connectResolved" =>
     /\ op.ret = "true"
     /\ status = "connected"
     /\ opens[op.att] = 1

\* a connect() returned true
C3_Witness ==
  /\ op.name = "connectResolved"
  /\ op.ret = "true"
  /\ session = op.att

\* C4: when the transport open rejects, connect() returns false without
\* throwing, status is disconnected, the handle is cleared, and onError's
\* output - one log entry and one `error` event with the reason - is emitted.
C4_FailedConnectIsAbsorbed ==
  op.name = "connectRejected" =>
     /\ op.ret = "false"
     /\ status = "disconnected"
     /\ session = NoSession
     /\ Kinds(out) = << <<"log", "server.error">>, <<"event", "error">> >>
     /\ out[2].p.message = (IF op.arg # "" THEN op.arg ELSE "Failed to connect.")

\* an open was rejected while the client held the session of another attempt
C4_Witness ==
  /\ op.name = "connectRejected"
  /\ op.preSession # NoSession
  /\ op.preStatus = "connected"
  /\ session = NoSession

\* C5: the session handle is present only while status is connected.
C5_HandleOnlyWhileConnected == session # NoSession => status = "connected"

\* C6: while a connect() awaits its open, every further connect() returns
\* false and starts no second open, so at most one open is ever awaited.
C6_NoSecondOpenWhileAwaiting == Cardinality(Pending) <= 1

C8_RefusedWhenNotConnected ==
  (op.name \in OutboundNames /\ op.preStatus # "connected") =>
     /\ Kinds(out) = << <<"event", "error">> >>
     /\ op.ret = "void"
     /\ status = op.preStatus
     /\ session = op.preSession

\* an outbound call was refused although a handle was still stored
C8_Witness ==
  /\ op.name \in OutboundNames
  /\ op.preStatus = "disconnected"
  /\ op.preSession # NoSession
  /\ Count(out, "event", "error") = 1

\* the first present field, in dispatch order
FirstPresent(m) ==
  IF m.setupComplete THEN "setupComplete"
  ELSE IF m.toolCall THEN "toolCall"
  ELSE IF m.toolCallCancellation THEN "toolCallCancellation"
  ELSE IF m.serverContent.present THEN "serverContent"
  ELSE "none"

\* the events a top-level branch may emit
BranchEvents(b) ==
  IF b = "setupComplete" THEN {"setupcomplete"}
  ELSE IF b = "toolCall" THEN {"toolcall"}
  ELSE IF b = "toolCallCancellation" THEN {"toolcallcancellation"}
  ELSE IF b = "serverContent"
    THEN {"interrupted", "inputTranscription", "outputTranscription",
          "audio", "content", "turncomplete"}
  ELSE {}

EventTypes(o) == {o[i].t : i \in {j \in DOMAIN o : o[j].k = "event"}}

\* the branch of the first present field ran, and only it
OnlyFirstPresentRan ==
  /\ op.branch = FirstPresent(op.arg)
  /\ EventTypes(out) \subseteq BranchEvents(op.branch)
  /\ op.branch \in {"setupComplete", "toolCall", "toolCallCancellation"} =>
       CountKind(out, "event") = 1

\* C9 as stated: every inbound message runs exactly one top-level branch, the
\* one of its first present field.
C9_ExactlyOneBranch ==
  op.name = "onMessage" => (op.branch # "none" /\ OnlyFirstPresentRan)

\* C9 amended: a message with at least one of the four fields runs exactly
\* one top-level branch, that of its first present field, and the branch is
\* terminal; a message with none of them runs no branch and emits nothing.
C9_AtMostOneBranch ==
  op.name = "onMessage" =>
     /\ OnlyFirstPresentRan
     /\ (op.branch = "none") = (FirstPresent(op.arg) = "none")
     /\ op.branch = "none" => Len(out) = 0

\* a message with setupComplete and serverContent was dispatched
C9_Witness ==
  /\ op.name = "onMessage"
  /\ op.arg.setupComplete
  /\ op.arg.serverContent.present
  /\ op.arg.serverContent.turnComplete
  /\ Kinds(out) = << <<"event", "setupcomplete">> >>

\* C10: a serverContent message with interrupted set yields one log entry and
\* one `interrupted` event and nothing else.
C10_InterruptedIsExclusive ==
  (op.name = "onMessage" /\ op.branch = "serverContent"
     /\ op.arg.serverContent.interrupted) =>
     /\ Len(out) = 2
     /\ CountKind(out, "log") = 1
     /\ Count(out, "event", "interrupted") = 1

\* an interrupted message that also carried every other signal
C10_Witness ==
  /\ op.name = "onMessage"
  /\ op.branch = "serverContent"
  /\ op.arg.serverContent.interrupted
  /\ op.arg.serverContent.inputTranscription.present
  /\ op.arg.serverContent.outputTranscription.present
  /\ Len(op.arg.serverContent.modelTurn.parts) > 0
  /\ op.arg.serverContent.turnComplete
  /\ Count(out, "event", "interrupted") = 1

\* the events of out, in order
RECURSIVE Events(_)
Events(o) ==
  IF o = <<>> THEN <<>>
  ELSE (IF Head(o).k = "event" THEN << Head(o) >> ELSE <<>>) \o Events(Tail(o))

EventSeq(o) == [i \in DOMAIN Events(o) |-> Events(o)[i].t]

\* position of an event type in the order of the serverContent signals
Rank(t) ==
  IF t = "inputTranscription" THEN 1
  ELSE IF t = "outputTranscription" THEN 2
  ELSE IF t = "audio" THEN 3
  ELSE IF t = "content" THEN 4
  ELSE 5

\* a serverContent message without interrupted was dispatched
SignalsDispatched ==
  /\ op.name = "onMessage"
  /\ op.branch = "serverContent"
  /\ ~op.arg.serverContent.interrupted

AudioPartsOf(m)    == SelectSeq(m.serverContent.modelTurn.parts, IsAudioPart)
NonAudio(p)        == ~IsAudioPart(p)
NonAudioPartsOf(m) == SelectSeq(m.serverContent.modelTurn.parts, NonAudio)

TurnDispatched == SignalsDispatched /\ op.arg.serverContent.modelTurn.present

HasPayload(p) == p.data # <<>>

\* the byte lengths carried by the audio events of out, in order
AudioBytes(o) ==
  LET IsAudioEvent(e) == e.t = "audio"
      audio == SelectSeq(Events(o), IsAudioEvent)
  IN  [i \in DOMAIN audio |-> audio[i].p.byteLength]

\* C12: the demultiplexer is a stable partition by 'inline data whose mime
\* type starts with audio/pcm': the audio events follow the order of the audio
\* parts, and the content event carries exactly the non-audio parts in their
\* order, also when one part object or equal-valued parts occur repeatedly.
C12_StablePartition ==
  TurnDispatched =>
    LET withPayload == SelectSeq(AudioPartsOf(op.arg), HasPayload)
    IN  /\ AudioBytes(out)
             = [i \in DOMAIN withPayload |-> base64ToArrayBuffer(withPayload[i].data).byteLength]
        /\ \A i \in DOMAIN out :
             (out[i].k = "event" /\ out[i].t = "content") =>
                out[i].p.modelTurn.parts = NonAudioPartsOf(op.arg)
        /\ \A i, j \in DOMAIN out :
             (out[i].t = "audio" /\ out[j].t = "content") => i < j

\* [audioA, text, audioB, text] with the same text object listed twice
C12_Witness ==
  /\ TurnDispatched
  /\ Len(op.arg.serverContent.modelTurn.parts) = 4
  /\ LET ps == op.arg.serverContent.modelTurn.parts
     IN  /\ ps[1].id = 1 /\ ps[2].id = 3 /\ ps[3].id = 6 /\ ps[4].id = 3
  /\ AudioBytes(out) = <<3, 6>>
  /\ Count(out, "event", "content") = 1

\* C13 as stated: a modelTurn emits one audio event, and one byte-length log
\* entry, per part whose inline mime type starts with audio/pcm.
C13_OneAudioPerAudioPart ==
  TurnDispatched =>
    /\ Count(out, "event", "audio") = Len(AudioPartsOf(op.arg))
    /\ Count(out, "log", "server.audio") = Len(AudioPartsOf(op.arg))

\* C13 amended: a modelTurn emits one audio event, directly followed by its
\* byte-length log entry, per audio/pcm part that has a non-empty payload; an
\* audio/pcm part without payload gives no event and no log entry (and is not
\* in the content event either).
C13_OneAudioPerPayload ==
  TurnDispatched =>
    LET n == Len(SelectSeq(AudioPartsOf(op.arg), HasPayload))
    IN  /\ Count(out, "event", "audio") = n
        /\ Count(out, "log", "server.audio") = n
        /\ \A i \in DOMAIN out :
             (out[i].k = "event" /\ out[i].t = "audio") =>
                /\ i + 1 \in DOMAIN out
                /\ out[i + 1].k = "log" /\ out[i + 1].t = "server.audio"
                /\ out[i + 1].p = <<"buffer", out[i].p.byteLength>>
        /\ \A i \in DOMAIN out :
             (out[i].k = "event" /\ out[i].t = "content") =>
                \A j \in DOMAIN out[i].p.modelTurn.parts :
                   ~IsAudioPart(out[i].p.modelTurn.parts[j])

\* a turn with two audio parts with payload and one without
C13_Witness ==
  /\ TurnDispatched
  /\ Len(AudioPartsOf(op.arg)) = 3
  /\ Len(SelectSeq(AudioPartsOf(op.arg), HasPayload)) = 2
  /\ Count(out, "event", "audio") = 2

\* C14: a modelTurn emits exactly one content event with one log entry when
\* its non-audio group is non-empty, and neither when the group is empty (all
\* parts audio, parts empty or missing).
C14_ContentIffNonAudio ==
  TurnDispatched =>
    LET n == IF Len(NonAudioPartsOf(op.arg)) > 0 THEN 1 ELSE 0
    IN  /\ Count(out, "event", "content") = n
        /\ Count(out, "log", "server.content") = n

\* turns without a non-audio part: parts missing, and parts all audio
C14_Witness ==
  /\ TurnDispatched
  /\ Len(op.arg.serverContent.modelTurn.parts) > 1
  /\ Len(NonAudioPartsOf(op.arg)) = 0
  /\ Count(out, "event", "audio") > 0
  /\ Count(out, "event", "content") = 0

\* the transport calls of out, in order
RECURSIVE Calls(_)
Calls(o) ==
  IF o = <<>> THEN <<>>
  ELSE (IF Head(o).k = "tx" THEN << Head(o) >> ELSE <<>>) \o Calls(Tail(o))

\* C15: sendRealtimeInput(chunks) while connected makes one transport send per
\* chunk, each with that chunk, in input order, and then emits one log entry.
C15_OneSendPerChunk ==
  (op.name = "sendRealtimeInput" /\ op.preStatus = "connected") =>
     /\ Len(Calls(out)) = Len(op.arg)
     /\ \A i \in DOMAIN Calls(out) :
          /\ Calls(out)[i].t = "sendRealtimeInput"
          /\ i \in DOMAIN op.arg
          /\ Calls(out)[i].p = [media |-> op.arg[i]]
     /\ CountKind(out, "log") = 1
     /\ Len(out) = Len(op.arg) + 1
     /\ out[Len(out)].k = "log"

AnyChunk(chunks, word) == \E i \in DOMAIN chunks : Includes(chunks[i].mimeType, <<word>>)

\* the label of a batch by a scan of all of its chunks
FullScanLabel(chunks) ==
  IF AnyChunk(chunks, "audio") /\ AnyChunk(chunks, "image") THEN "audio + video"
  ELSE IF AnyChunk(chunks, "audio") THEN "audio"
  ELSE IF AnyChunk(chunks, "image") THEN "video"
  ELSE "unknown"

\* C16: the label sendRealtimeInput logs depends on the batch only: it is
\* 'audio + video', 'audio', 'video' or 'unknown' according to whether some
\* chunk is audio-mime and some chunk image-mime, as a scan of all chunks
\* would give.
C16_LabelOfBatch ==
  op.name = "sendRealtimeInput" =>
     \A i \in DOMAIN out :
        out[i].k = "log" =>
           /\ out[i].t = "client.realtimeInput"
           /\ out[i].p = FullScanLabel(op.arg)

\* both kinds were found before the last chunk, which the scan then skipped
C16_Witness ==
  /\ op.name = "sendRealtimeInput"
  /\ Len(op.arg) = 3
  /\ Includes(op.arg[1].mimeType, <<"image">>)
  /\ Includes(op.arg[2].mimeType, <<"audio">>)
  /\ CountKind(out, "log") = 1
  /\ out[Len(out)].p = "audio + video"

\* C17: sendToolResponse while connected forwards the function responses to
\* the transport once if the list is non-empty and not at all if it is empty
\* or missing, and emits one log entry in both cases.
C17_ToolResponseForwardedOnce ==
  (op.name = "sendToolResponse" /\ op.preStatus = "connected") =>
     /\ CountKind(out, "tx")
          = (IF op.arg.present /\ Len(op.arg.functionResponses) > 0 THEN 1 ELSE 0)
     /\ CountKind(out, "tx") = Count(out, "tx", "sendToolResponse")
     /\ CountKind(out, "log") = 1
     /\ Count(out, "log", "client.toolResponse") = 1

LogsOf(o, emitted) ==
  IF o.name \in {"disconnect", "onError", "onClose", "connectRejected"} THEN 1
  ELSE IF o.name \in {"connect", "connectResolved", "onOpen", "new"} THEN 0
  ELSE IF o.name \in OutboundNames
    THEN IF o.preStatus = "connected" /\ o.preSession # NoSession /\ o.ret # "throw"
         THEN 1 ELSE 0
  ELSE IF o.branch \in {"toolCall", "toolCallCancellation"} THEN 1
  ELSE IF o.branch = "serverContent" THEN CountKind(emitted, "event")
  ELSE 0

C19_ErrorAndCloseCallbacks ==
  /\ op.name = "onError" =>
       /\ status = "disconnected"
       /\ Kinds(out) = << <<"log", "server.error">>, <<"event", "error">> >>
       /\ out[2].p = op.arg
  /\ op.name = "onClose" =>
       /\ status = "disconnected"
       /\ Kinds(out) = << <<"log", "server.close">>, <<"event", "close">> >>
       /\ out[2].p.type = "close"
       /\ out[2].p.reason = op.arg

\* a close callback that arrived while the client was connected with a handle
C19_Witness ==
  /\ op.name = "onClose"
  /\ op.preStatus = "connected"
  /\ op.preSession # NoSession
  /\ status = "disconnected"
  /\ op.arg # <<>>

\* C20: no public operation lets an exception of a transport call reach its
\* caller.
C20_NoExceptionEscapes == op.ret # "throw"

\* C21: send(parts, turnComplete) while status is connected makes exactly one
\* sendClientContent call on the transport, carrying the parts as turns and
\* the turnComplete flag (true when omitted), then emits exactly one log entry
\* whose message is the parts; it emits no `error` event.
C21_SendForwardsOnce ==
  (op.name = "send" /\ op.preStatus = "connected") =>
     /\ Kinds(out) = << <<"tx", "sendClientContent">>, <<"log", "client.send">> >>
     /\ out[1].p.turns = op.arg[1]
     /\ out[1].p.turnComplete = (IF op.arg[2] = "unset" THEN "true" ELSE op.arg[2])
     /\ out[2].p = op.arg[1]

\* the reason inside the message of the log entry a close callback emitted
LoggedReason(o) == IF Len(o[1].p) = 3 THEN o[1].p[3] ELSE <<>>

\* C22: when the close reason contains the marker `ERROR]`, at any position
\* including position 0, the logged reason is the text after the marker with
\* one more character skipped; when it does not contain the marker, the logged
\* reason is the raw reason.
C22_CloseReasonExtraction ==
  op.name = "onClose" =>
     LoggedReason(out) =
        (IF Includes(op.arg, Marker)
         THEN SliceFrom(op.arg, IndexOf(op.arg, Marker) + Len(Marker) + 1)
         ELSE op.arg)

\* C23: once disconnect() has returned, status stays disconnected and no
\* handle is installed until connect() is next invoked.  Stated for the
\* handler that runs first after disconnect(): unless it is connect(), be it
\* the resolution of an open that was pending, a late onOpen or anything
\* else, it leaves status disconnected and the handle absent.
C23_DisconnectedUntilConnect ==
  [][(op.name = "disconnect" /\ op'.name # "connect")
       => (status' = "disconnected" /\ session' = NoSession)]_vars

\* the handles the transport returned whose connection is still open
Live == {a \in Attempts : promise[a] = "resolved" /\ sock[a] = "open"}

\* C24: every session handle the transport returned is still held by the
\* client, or close() was requested on it, or the transport closed it.
C24_NoSessionLost == \A a \in Live : session = a \/ closeReq[a]

\* C25: in every reachable state status connected implies that the handle is
\* present, and an outbound operation invoked while status is connected is
\* never rejected with the `not connected` error event.
C25_ConnectedHasHandle ==
  /\ status = "connected" => session # NoSession
  /\ (op.name \in OutboundNames /\ op.preStatus = "connected")
       => Count(out, "event", "error") = 0

\* C26: onMessage, for any message, and send, sendRealtimeInput and
\* sendToolResponse, forwarded or rejected, leave status and the session
\* handle as they found them; only connect, disconnect, onOpen, onError and
\* onClose modify them.
C26_DispatchAndSendsKeepState ==
  op.name \in OutboundNames \cup {"onMessage"} =>
     /\ status = op.preStatus
     /\ session = op.preSession

\* a message was dispatched while the client was connected and held a handle
C26_Witness ==
  /\ op.name = "onMessage"
  /\ Len(out) > 0
  /\ op.preStatus = "connected"
  /\ op.preSession # NoSession
  /\ status = "connected"
  /\ session = op.preSession

====
